---- MODULE Spec2Model ----
(***************************************************************************)
(* A model of the fixed-capacity object pool of go-simplepool (pool.go,    *)
(* config.go).  The pool is a buffered channel `idle` of capacity          *)
(* config.Count plus a channel `stopping` that Stop closes.  Goroutines    *)
(* call New once and then Get, Put and Stop concurrently.                  *)
(*                                                                         *)
(* Channels follow the Go runtime: a buffered channel is a FIFO buffer, a  *)
(* goroutine that cannot receive parks at the tail of the channel's        *)
(* receive queue, a send hands its value to the goroutine at the head of   *)
(* the receive queue when there is one, a select commits to any one of its *)
(* ready cases, closing a channel wakes every goroutine parked on it, and  *)
(* closing a closed channel panics.                                        *)
(*                                                                         *)
(* Objects are named by the index of the constructor call that made them.  *)
(***************************************************************************)
EXTENDS Naturals, Integers, Sequences, FiniteSets

\* Largest config.Count tried and number of goroutines that use the pool.
MaxCount == 2
NumProcs == 3

\* Largest config.Count tried when New alone is explored.
MaxNewCount == 6

Procs == 1..NumProcs
Counts == (0 - 1)..MaxCount

\* The zero value of T, returned by Get with an error.
Zero == 0

VARIABLES
    config,      \* Config[T]: Count, and whether NewFunc and DestroyFunc are set
    newErr,      \* result of New: "pending" before the call, then "nil", "config" or "ErrNew"
    newCalls,    \* number of calls of newFunc so far
    idle,        \* buffer of the channel p.idle, oldest element first
    recvq,       \* goroutines parked receiving from p.idle, oldest first
    sendq,       \* goroutines parked sending to p.idle, oldest first
    stopping,    \* TRUE once the channel p.stopping is closed
    crashed,     \* TRUE once an unrecovered panic has ended the program
    destroyed,   \* the objects passed to destroyFunc, in call order
    pc,          \* per goroutine: where it is
    held,        \* per goroutine: the objects it got from Get and has not Put
    obj,         \* per goroutine: local `object` of Stop, or the object a parked Put sends
    iter,        \* per goroutine: iterations of Stop's loop completed
    late,        \* the objects Put since p.stopping was closed and not yet destroyed
    ev           \* the call that returned in the step just taken, if one did

vars == <<config, newErr, newCalls, idle, recvq, sendq, stopping,
          crashed, destroyed, pc, held, obj, iter, late, ev>>

poolVars == <<config, newErr, newCalls>>

----------------------------------------------------------------------------
\* Helpers on sequences.

Range(s) == {s[i] : i \in 1..Len(s)}

Remove(s, x) == SelectSeq(s, LAMBDA y : y # x)

FirstN(n) == [i \in 1..n |-> i]

NoDup(s) == \A i, j \in 1..Len(s) : i # j => s[i] # s[j]

RECURSIVE SetSum(_, _)
SetSum(f, S) == IF S = {} THEN 0
                ELSE LET x == CHOOSE y \in S : TRUE
                     IN  Cardinality(f[x]) + SetSum(f, S \ {x})

\* Number of objects held by callers.
Borrowed == SetSum(held, Procs)

\* The record of a step in which a call runs its channel operation: call op
\* with object obj (the one Get returns or Put sends, Zero if none) and result
\* res; cancelled: the ctx of a Get was already done at the call.
Event(op, o, res, cancelled) ==
    [op |-> op, obj |-> o, res |-> res, cancelled |-> cancelled]

\* The record of any other step.
NoEvent == Event("", Zero, "", FALSE)

----------------------------------------------------------------------------
\* config.Check().
Check(c) == IF c.Count < 0 THEN "config"
            ELSE IF ~c.NewFunc THEN "config"
            ELSE "nil"

\* cap(p.idle), p.idle being make(chan T, config.Count).
Cap == config.Count

\* Faulty variant: a loop that loses the object of the last newFunc call.
ConstructedShort(n) == FirstN(n - 1)

\* The objects New's loop has put in p.idle after n successful newFunc calls.
Constructed(n) == FirstN(n)

\* The destroyFunc calls made for the objects of sequence s, in order.
DestroyAll(s) == IF config.DestroyFunc THEN s ELSE << >>

Init ==
    /\ config \in [Count : Counts, NewFunc : BOOLEAN, DestroyFunc : BOOLEAN]
    /\ newErr = "pending"
    /\ newCalls = 0
    /\ idle = << >>
    /\ recvq = << >>
    /\ sendq = << >>
    /\ stopping = FALSE
    /\ crashed = FALSE
    /\ destroyed = << >>
    /\ pc = [p \in Procs |-> "ready"]
    /\ held = [p \in Procs |-> {}]
    /\ obj = [p \in Procs |-> Zero]
    /\ iter = [p \in Procs |-> 0]
    /\ late = {}
    /\ ev = NoEvent

----------------------------------------------------------------------------
\* The channel p.idle.

\* Faulty variants of the channel operations below, used to test the properties:
\* a receive that takes the newest value, a receive that leaves the value in the
\* buffer, a send that loses its value, a send that jumps the queue, and a send
\* that serves the newest parked receiver.
ChanHeadNewest(buf) == buf[Len(buf)]
ChanRestKeep(buf) == buf
ChanSendLost(buf, o) == buf
ChanSendFront(buf, o) == <<o>> \o buf
LastWaiter(q) == q[Len(q)]

\* Faulty variant: a receive that takes the oldest value and drops the newest.
ChanRestDropNewest(buf) == SubSeq(buf, 1, Len(buf) - 1)

\* The value a receive takes from a non-empty buffer, and what it leaves.
ChanHead(buf) == Head(buf)
ChanRest(buf) == Tail(buf)

\* The buffer after a send that finds room and no parked receiver.
ChanSend(buf, o) == Append(buf, o)

\* The parked receiver a send hands its value to.
FirstWaiter(q) == Head(q)

\* A receive from p.idle can proceed: the buffer holds a value or a sender is parked.
CanRecv == idle # << >> \/ sendq # << >>

\* The value that receive takes.
RecvValue == IF idle # << >> THEN ChanHead(idle) ELSE obj[Head(sendq)]

\* The buffer after that receive: a parked sender's value moves into the freed slot.
RecvIdle == IF idle = << >> THEN idle
            ELSE IF sendq = << >> THEN ChanRest(idle)
            ELSE Append(ChanRest(idle), obj[Head(sendq)])

\* f with the sender that receive wakes (if any) mapped to v.
WakeSender(f, v) == IF sendq = << >> THEN f ELSE [f EXCEPT ![Head(sendq)] = v]

RecvSendq == IF sendq = << >> THEN sendq ELSE Tail(sendq)

----------------------------------------------------------------------------
\* New.

\* Faulty variant: a rollback that drains the newest object first.
RECURSIVE RollbackNewestFirst(_)
RollbackNewestFirst(buf) ==
    IF buf = << >> THEN << >>
    ELSE <<buf[Len(buf)]>> \o RollbackNewestFirst(SubSeq(buf, 1, Len(buf) - 1))

\* The objects New's rollback loop receives from p.idle, in order:
\* for range len(p.idle) { object := <-p.idle; ... }.
RECURSIVE Rollback(_)
Rollback(buf) ==
    IF buf = << >> THEN << >>
    ELSE <<ChanHead(buf)>> \o Rollback(ChanRest(buf))

\* New(config).  failAt = 0: newFunc never fails; failAt = k > 0: the k-th
\* call of newFunc returns an error.
New(failAt) ==
    /\ newErr = "pending"
    /\ failAt \in 0..(IF config.Count < 0 THEN 0 ELSE config.Count)
    /\ IF Check(config) # "nil"
       THEN /\ newErr' = Check(config)
            /\ UNCHANGED <<newCalls, idle, destroyed>>
       ELSE IF failAt = 0
       THEN /\ newCalls' = Cap
            /\ idle' = Constructed(Cap)
            /\ newErr' = "nil"
            /\ UNCHANGED destroyed
       ELSE /\ newCalls' = failAt
            /\ idle' = << >>
            /\ destroyed' = DestroyAll(Rollback(Constructed(failAt - 1)))
            /\ newErr' = "ErrNew"
    /\ ev' = Event("New", Zero, newErr', FALSE)
    /\ UNCHANGED <<config, recvq, sendq, stopping, crashed,
                   pc, held, obj, iter, late>>

\* The pool exists and the program runs.
Running == newErr = "nil" /\ ~crashed

----------------------------------------------------------------------------
\* Get(ctx).  cancelled: ctx is already done when the select runs.

\* Faulty variant: a select that has no ctx.Done() case.
ReadyCasesNoCtx(cancelled) ==
    {c \in {"idle", "stopping"} :
        \/ c = "idle" /\ CanRecv
        \/ c = "stopping" /\ stopping}

\* Faulty variant: a select that has no p.stopping case.
ReadyCasesNoStop(cancelled) ==
    {c \in {"idle", "ctx"} :
        \/ c = "idle" /\ CanRecv
        \/ c = "ctx" /\ cancelled}

\* The cases of Get's select that are ready.
ReadyCases(cancelled) ==
    {c \in {"idle", "ctx", "stopping"} :
        \/ c = "idle" /\ CanRecv
        \/ c = "ctx" /\ cancelled
        \/ c = "stopping" /\ stopping}

Get(p, cancelled) ==
    /\ Running
    /\ pc[p] = "ready"
    /\ IF ReadyCases(cancelled) = {}
       THEN \* no case is ready: the goroutine parks on all three channels
            /\ recvq' = Append(recvq, p)
            /\ pc' = [pc EXCEPT ![p] = "GetWait"]
            /\ ev' = Event("Get", Zero, "parked", cancelled)
            /\ UNCHANGED <<idle, sendq, held, obj>>
       ELSE \E c \in ReadyCases(cancelled) :
            IF c = "idle"
            THEN /\ idle' = RecvIdle
                 /\ sendq' = RecvSendq
                 /\ pc' = WakeSender(pc, "ready")
                 /\ obj' = WakeSender(obj, Zero)
                 /\ held' = [held EXCEPT ![p] = @ \cup {RecvValue}]
                 /\ ev' = Event("Get", RecvValue, "nil", cancelled)
                 /\ UNCHANGED recvq
            ELSE /\ ev' = Event("Get", Zero,
                                IF c = "ctx" THEN "ctx" ELSE "ErrStoppingOrStopped",
                                cancelled)
                 /\ UNCHANGED <<idle, recvq, sendq, pc, held, obj>>
    /\ UNCHANGED <<poolVars, stopping, crashed, destroyed, iter, late>>

\* Faulty variants: a cancelled Get that stays in the receive queue, and one
\* that takes every parked goroutine out of it.
DequeueKeep(q, p) == q
DequeueAll(q, p) == << >>

\* The receive queue of p.idle once the select of parked goroutine p has
\* committed to another case.
Dequeue(q, p) == Remove(q, p)

\* ctx.Done() fires while Get is parked: Get returns ctx.Err().
GetCancel(p) ==
    /\ Running
    /\ pc[p] = "GetWait"
    /\ recvq' = Dequeue(recvq, p)
    /\ pc' = [pc EXCEPT ![p] = "ready"]
    /\ ev' = Event("GetCancel", Zero, "ctx", FALSE)
    /\ UNCHANGED <<poolVars, idle, sendq, stopping, crashed, destroyed,
                   held, obj, iter, late>>

----------------------------------------------------------------------------
\* Put(object), called with an object the caller got from Get and has not Put.

Put(p, o) ==
    /\ Running
    /\ pc[p] = "ready"
    /\ o \in held[p]
    /\ late' = IF stopping THEN late \cup {o} ELSE late
    /\ IF recvq # << >>
       THEN \* a receiver is parked: the send hands it the object
            LET w == FirstWaiter(recvq) IN
            /\ recvq' = Remove(recvq, w)
            /\ ev' = Event("Put", o, "handoff", FALSE)
            /\ IF pc[w] = "GetWait"
               THEN /\ held' = [held EXCEPT ![p] = @ \ {o}, ![w] = @ \cup {o}]
                    /\ pc' = [pc EXCEPT ![w] = "ready"]
                    /\ UNCHANGED obj
               ELSE /\ held' = [held EXCEPT ![p] = @ \ {o}]
                    /\ pc' = [pc EXCEPT ![w] = "StopDestroy"]
                    /\ obj' = [obj EXCEPT ![w] = o]
            /\ UNCHANGED <<idle, sendq>>
       ELSE IF Len(idle) < Cap
       THEN /\ idle' = ChanSend(idle, o)
            /\ held' = [held EXCEPT ![p] = @ \ {o}]
            /\ ev' = Event("Put", o, "buffered", FALSE)
            /\ UNCHANGED <<recvq, sendq, pc, obj>>
       ELSE \* the buffer is full: the send parks
            /\ sendq' = Append(sendq, p)
            /\ held' = [held EXCEPT ![p] = @ \ {o}]
            /\ obj' = [obj EXCEPT ![p] = o]
            /\ pc' = [pc EXCEPT ![p] = "PutWait"]
            /\ ev' = Event("Put", o, "parked", FALSE)
            /\ UNCHANGED <<idle, recvq>>
    /\ UNCHANGED <<poolVars, stopping, crashed, destroyed, iter>>

----------------------------------------------------------------------------
\* Stop().

\* Faulty variants: a loop that runs one time too few, and one time too many.
StopRangeShort == Cap - 1
StopRangeLong == Cap + 1

\* The number of iterations of Stop's loop, `for range cap(p.idle)`.
StopRange == Cap

\* Where Stop goes after n iterations of its loop, and the record of that step.
StopNext(n) == IF n >= StopRange THEN "ready" ELSE "StopLoop"
StopEvent(n) == IF n >= StopRange THEN Event("Stop", Zero, "drained", FALSE)
                   ELSE NoEvent

\* Faulty variant: a Stop that goes on to its loop after the panic.
PanicNextLoop(recovered) == "StopLoop"

\* Where a Stop that panicked in close(p.stopping) is: back in its caller when
\* the caller recovers, gone with the program otherwise.
PanicNext(recovered) == IF recovered THEN "ready" ELSE "panicked"

\* The select of Stop: return if p.stopping is closed, else go on to close it.
StopSelect(p) ==
    /\ Running
    /\ pc[p] = "ready"
    /\ IF stopping
       THEN /\ ev' = Event("Stop", Zero, "noop", FALSE)
            /\ UNCHANGED pc
       ELSE /\ pc' = [pc EXCEPT ![p] = "StopClose"]
            /\ ev' = NoEvent
    /\ UNCHANGED <<poolVars, idle, recvq, sendq, stopping, crashed,
                   destroyed, held, obj, iter, late>>

\* close(p.stopping).  Closing wakes every Get parked in its select; closing a
\* closed channel panics, and the panic either is recovered by the caller
\* or ends the program.
StopClose(p, recovered) ==
    /\ Running
    /\ pc[p] = "StopClose"
    /\ IF stopping
       THEN /\ crashed' = ~recovered
            /\ pc' = [pc EXCEPT ![p] = PanicNext(recovered)]
            /\ ev' = Event("Stop", Zero, "panic", FALSE)
            /\ UNCHANGED <<stopping, recvq, iter>>
       ELSE /\ stopping' = TRUE
            /\ recvq' = << >>
            /\ pc' = [q \in Procs |->
                        IF q = p THEN StopNext(0)
                        ELSE IF pc[q] = "GetWait" THEN "ready" ELSE pc[q]]
            /\ iter' = [iter EXCEPT ![p] = 0]
            /\ ev' = StopEvent(0)
            /\ UNCHANGED crashed
    /\ UNCHANGED <<poolVars, idle, sendq, destroyed, held, obj, late>>

\* object := <-p.idle in Stop's loop.
StopRecv(p) ==
    /\ Running
    /\ pc[p] = "StopLoop"
    /\ IF CanRecv
       THEN /\ idle' = RecvIdle
            /\ sendq' = RecvSendq
            /\ obj' = [WakeSender(obj, Zero) EXCEPT ![p] = RecvValue]
            /\ pc' = [WakeSender(pc, "ready") EXCEPT ![p] = "StopDestroy"]
            /\ ev' = NoEvent
            /\ UNCHANGED recvq
       ELSE /\ recvq' = Append(recvq, p)
            /\ pc' = [pc EXCEPT ![p] = "StopWait"]
            /\ ev' = NoEvent
            /\ UNCHANGED <<idle, sendq, obj>>
    /\ UNCHANGED <<poolVars, stopping, crashed, destroyed, held, iter, late>>

\* if p.destroyFunc != nil { p.destroyFunc(object) }, and the loop's next turn.
StopDestroy(p) ==
    /\ Running
    /\ pc[p] = "StopDestroy"
    /\ destroyed' = destroyed \o DestroyAll(<<obj[p]>>)
    /\ obj' = [obj EXCEPT ![p] = Zero]
    /\ iter' = [iter EXCEPT ![p] = @ + 1]
    /\ pc' = [pc EXCEPT ![p] = StopNext(iter[p] + 1)]
    /\ ev' = StopEvent(iter[p] + 1)
    /\ late' = late \ {obj[p]}
    /\ UNCHANGED <<poolVars, idle, recvq, sendq, stopping, crashed, held>>

----------------------------------------------------------------------------
Next ==
    \/ \E k \in 0..MaxCount : New(k)
    \/ \E p \in Procs, c \in BOOLEAN : Get(p, c)
    \/ \E p \in Procs : GetCancel(p)
    \/ \E p \in Procs, o \in 1..MaxCount : Put(p, o)
    \/ \E p \in Procs : StopSelect(p)
    \/ \E p \in Procs, r \in BOOLEAN : StopClose(p, r)
    \/ \E p \in Procs : StopRecv(p)
    \/ \E p \in Procs : StopDestroy(p)

Spec == Init /\ [][Next]_vars

\* New alone, for larger values of config.Count.
InitNew ==
    /\ config \in [Count : (0 - 1)..MaxNewCount, NewFunc : BOOLEAN,
                   DestroyFunc : BOOLEAN]
    /\ newErr = "pending"
    /\ newCalls = 0
    /\ idle = << >>
    /\ recvq = << >>
    /\ sendq = << >>
    /\ stopping = FALSE
    /\ crashed = FALSE
    /\ destroyed = << >>
    /\ pc = [p \in Procs |-> "ready"]
    /\ held = [p \in Procs |-> {}]
    /\ obj = [p \in Procs |-> Zero]
    /\ iter = [p \in Procs |-> 0]
    /\ late = {}
    /\ ev = NoEvent

NextNew == \E k \in 0..MaxNewCount : New(k)

SpecNew == InitNew /\ [][NextNew]_vars

----------------------------------------------------------------------------
\* Where the objects are.

\* The objects the pool constructed.
Objects == 1..newCalls

Count(s, x) == Cardinality({i \in 1..Len(s) : s[i] = x})

\* Places object o is in: slots of the idle buffer, callers holding it, and
\* goroutines that carry it in a local (Stop about to destroy it).
InIdle(o) == Count(idle, o)
Holders(o) == Cardinality({p \in Procs : o \in held[p]})
InFlight(o) == Cardinality({p \in Procs : obj[p] = o})
Destroyed(o) == Count(destroyed, o)

RECURSIVE Sum(_, _)
Sum(f, S) == IF S = {} THEN 0
             ELSE LET x == CHOOSE y \in S : TRUE IN f[x] + Sum(f, S \ {x})

\* Every object has left the pool and its callers, through Stop's loop.
AllTornDown ==
    /\ idle = << >>
    /\ Borrowed = 0
    /\ \A p \in Procs : obj[p] = Zero
    /\ config.DestroyFunc => Range(destroyed) = 1..Cap /\ Len(destroyed) = Cap

----------------------------------------------------------------------------
\* C1: while the pool exists and the stop signal has not been raised, the
\* number of objects in the idle queue plus the number of objects held by
\* callers equals the capacity.
C1_IdlePlusBorrowedIsCapacity ==
    (newErr = "nil" /\ ~stopping) => Len(idle) + Borrowed = Cap

\* C1 witness: a running pool with an object idle, an object borrowed and a
\* Put just completed.
C1_Witness ==
    /\ newErr = "nil" /\ ~stopping
    /\ ev.op = "Put"
    /\ Len(idle) >= 1 /\ Borrowed >= 1

\* C2: no object is destroyed twice, none is lost (each is in exactly one
\* place: idle, held by one caller, in Stop's hands, or destroyed), and only
\* objects New constructed are destroyed.
C2_NoDuplicateLossOrDoubleDestroy ==
    /\ NoDup(destroyed)
    /\ Range(destroyed) \subseteq Objects
    /\ (newErr = "nil" /\ config.DestroyFunc) =>
         \A o \in Objects :
            InIdle(o) + Holders(o) + InFlight(o) + Destroyed(o) = 1
    /\ (newErr = "nil" /\ ~config.DestroyFunc) =>
         \* without a destructor Stop's loop drops the objects it receives
         /\ \A o \in Objects : InIdle(o) + Holders(o) + InFlight(o) <= 1
         /\ Len(idle) + Borrowed + Cardinality({p \in Procs : obj[p] # Zero})
               + Sum(iter, Procs) = Cap

\* C2 witness: Stop has destroyed one object while another, borrowed before
\* the stop, is still held by a caller.
C2_Witness ==
    /\ newErr = "nil" /\ stopping /\ config.DestroyFunc
    /\ Len(destroyed) >= 1
    /\ Borrowed >= 1

\* C3 (as claimed): a Get that runs after the stop signal was raised, with a
\* live token, fails with ErrStoppingOrStopped and returns no object.
C3_GetAfterStopFails ==
    (ev.op = "Get" /\ stopping /\ ~ev.cancelled) =>
        (ev.res = "ErrStoppingOrStopped" /\ ev.obj = Zero)

\* C4 (as claimed): p.stopping is closed exactly once: no Stop call executes
\* close(p.stopping) on the closed channel.
C4_StopSignalRaisedOnce ==
    ~(ev.op = "Stop" /\ ev.res = "panic")

\* C5 (as claimed): whenever any Stop call returns, every object has been
\* destroyed.
C5_AnyStopReturnAllDestroyed ==
    (ev.op = "Stop" /\ ev.res \in {"noop", "drained"}) => AllTornDown

\* C5 (amended): whenever the Stop call that raised the stop signal returns,
\* every object has been destroyed: none is idle, borrowed or in Stop's hands.
C5_DrainingStopReturnAllDestroyed ==
    (ev.op = "Stop" /\ ev.res = "drained") => AllTornDown

\* C5 witness: the Stop call that raised the signal returns after destroying
\* two objects.
C5_Witness ==
    /\ ev.op = "Stop" /\ ev.res = "drained"
    /\ Len(destroyed) >= 2

\* C6 (as claimed): a Get called with an already-cancelled token on a pool that
\* is not stopping returns a cancellation error and takes no object from the
\* idle queue, whatever the idle queue holds.
C6_CancelledGetNeverTakes ==
    (ev.op = "Get" /\ ev.cancelled /\ ~stopping) =>
        (ev.res = "ctx" /\ ev.obj = Zero)

\* C6 (amended): a Get called with an already-cancelled token never blocks; it
\* returns a cancellation error when the idle queue is empty and the pool is
\* not stopping; when it returns an error it returns the zero value and leaves
\* the idle queue and the borrowed objects as they were; and when the idle
\* queue is not empty it may instead return the oldest idle object.
C6_CancelledGetOnEmptyQueueFails ==
    [][(ev'.op = "Get" /\ ev'.cancelled) =>
          /\ ev'.res \in {"ctx", "nil", "ErrStoppingOrStopped"}
          /\ (idle = << >> /\ ~stopping) => ev'.res = "ctx"
          /\ ev'.res # "nil" => (ev'.obj = Zero /\ idle' = idle /\ held' = held)
          /\ ev'.res = "nil" =>
                (idle # << >> /\ ev'.obj = Head(idle) /\ idle' = Tail(idle))
          /\ ev'.res = "ErrStoppingOrStopped" => stopping]_vars

\* C6 witness: a Get with an already-cancelled token has returned the
\* cancellation error while the only object is borrowed and the pool runs.
C6_Witness ==
    /\ ev.op = "Get" /\ ev.cancelled /\ ev.res = "ctx"
    /\ ~stopping /\ idle = << >> /\ Borrowed = 1 /\ Cap = 1

\* C7: waiting Get calls are served oldest first: a parked Get that obtains an
\* object is the one at the head of the receive queue, and no Get that is not
\* parked obtains an object while a Get is parked.
C7_WaitersServedFIFO ==
    [][\A p \in Procs :
          held'[p] \ held[p] # {} =>
             IF pc[p] = "GetWait"
             THEN recvq # << >> /\ p = Head(recvq)
             ELSE \A q \in Procs : pc[q] # "GetWait"]_vars

\* C7 witness: a Put has handed its object to a parked Get while a second Get,
\* parked later, is still waiting.
C7_Witness ==
    /\ ev.op = "Put" /\ ev.res = "handoff"
    /\ ~stopping
    /\ \E w \in Procs : pc[w] = "GetWait" /\ recvq = <<w>>

\* C8: idle objects are reused oldest first: a Get that takes an object from
\* the idle queue takes its first element and leaves the rest in order, a Put
\* that leaves its object idle appends it at the end, and New fills the idle
\* queue in construction order.
C8_IdleReusedFIFO ==
    [][/\ \A p \in Procs : \A o \in held'[p] \ held[p] :
             idle # << >> => (o = Head(idle) /\ idle' = Tail(idle))
       /\ (ev'.op = "Put" /\ ev'.res = "buffered") =>
             idle' = Append(idle, ev'.obj)
       /\ (ev'.op = "New" /\ ev'.res = "nil") =>
             idle' = [i \in 1..config.Count |-> i]]_vars

\* C8 witness: after Puts have left object 2 idle before object 1, a Get has
\* returned object 2 and object 1 is still idle.
C8_Witness ==
    /\ ev.op = "Get" /\ ev.res = "nil" /\ ev.obj = 2
    /\ idle = <<1>>
    /\ ~stopping

\* C9: Put never blocks: no Put is parked on the idle queue, and whenever a
\* caller holds an object the idle queue has room for it.
C9_PutNeverBlocks ==
    newErr = "nil" =>
        /\ sendq = << >>
        /\ \A p \in Procs : pc[p] # "PutWait"
        /\ \A p \in Procs : held[p] # {} => Len(idle) < Cap

\* C9 witness: a Put made while Stop is draining has completed, leaving its
\* object in the idle queue, while another object is still borrowed.
C9_Witness ==
    /\ ev.op = "Put" /\ ev.res = "buffered"
    /\ stopping
    /\ Borrowed >= 1

\* C10 (as claimed): an object Put after the stop signal was raised is never
\* handed to a Get caller again.
C10_LatePutNeverReissued ==
    \A p \in Procs : held[p] \cap late = {}

\* C11 (as claimed): once Stop has raised the signal, each Put leads to the
\* destruction of one object, so the borrowed objects only go back: no object
\* is Put twice after the signal, and Stop returns after as many Puts as there
\* were objects borrowed when it raised the signal.
C11_EachLatePutDestroysOneObject ==
    [][(ev'.op = "Put" /\ stopping) => ev'.obj \notin late]_vars

\* C12: when newFunc fails on its k-th call, New has called it exactly k times,
\* has passed the k-1 objects built before to destroyFunc once each, in the
\* order they were built, returns no pool and the error ErrNew, and leaves no
\* object idle or borrowed.
C12_NewRollsBackInOrder ==
    newErr = "ErrNew" =>
        /\ newCalls \in 1..config.Count
        /\ config.DestroyFunc => destroyed = [i \in 1..(newCalls - 1) |-> i]
        /\ ~config.DestroyFunc => destroyed = << >>
        /\ idle = << >>
        /\ Borrowed = 0
        /\ ev.op = "New" /\ ev.res = "ErrNew"

\* C12 witness: newFunc failed on its fourth call and the three objects built
\* before were destroyed.
C12_Witness ==
    /\ newErr = "ErrNew"
    /\ newCalls = 4
    /\ Len(destroyed) = 3

\* C13 (as claimed): a Get with a live token that directly follows the return
\* of a Stop call returns ErrStoppingOrStopped and the zero value, without
\* blocking.
C13_GetAfterStopReturnFails ==
    [][(ev.op = "Stop" /\ ev.res \in {"noop", "drained"}
          /\ ev'.op = "Get" /\ ~ev'.cancelled) =>
             (ev'.res = "ErrStoppingOrStopped" /\ ev'.obj = Zero)]_vars

\* The goroutines parked in a receive from p.idle.
Parked == {p \in Procs : pc[p] \in {"GetWait", "StopWait"}}

\* The goroutines inside Stop's loop.
Draining == {p \in Procs : pc[p] \in {"StopLoop", "StopWait", "StopDestroy"}}

\* C14: no object is held by two callers at the same time, every object a
\* caller holds is one New constructed, and the number of objects borrowed
\* never exceeds the capacity.
C14_NoObjectSharedBorrowedWithinCapacity ==
    newErr = "nil" =>
        /\ \A p, q \in Procs : p # q => held[p] \cap held[q] = {}
        /\ \A p \in Procs : held[p] \subseteq Objects
        /\ Borrowed <= Cap
        /\ ev.op = "Get" /\ ev.res = "nil" =>
              Cardinality({p \in Procs : ev.obj \in held[p]}) = 1

\* C14 witness: a Get has just returned an object while another caller holds
\* the other one, so that capacity objects are borrowed.
C14_Witness ==
    /\ ev.op = "Get" /\ ev.res = "nil"
    /\ Cap = 2 /\ Borrowed = 2
    /\ \E p, q \in Procs : p # q /\ held[p] # {} /\ held[q] # {}

\* C15: when the ctx of a parked Get fires, the Get returns the cancellation
\* error and the zero value, takes no object, and leaves the receive queue,
\* whose other goroutines keep their order.  The receive queue holds exactly
\* the goroutines still parked, so a later Put hands its object to the oldest
\* goroutine still waiting, or leaves it idle when none waits, and the object
\* is in that goroutine's hands or idle afterwards.
C15_CancelledWaiterForfeitsPlace ==
    [][/\ ev'.op = "GetCancel" =>
             /\ ev'.res = "ctx" /\ ev'.obj = Zero
             /\ idle' = idle /\ held' = held /\ obj' = obj
             /\ \E p \in Procs :
                   /\ pc[p] = "GetWait" /\ pc'[p] = "ready"
                   /\ recvq' = Remove(recvq, p)
                   /\ \A q \in Procs \ {p} : pc'[q] = pc[q]
       /\ Range(recvq') = Parked'
       /\ NoDup(recvq')
       /\ (ev'.op = "Put" /\ ev'.res = "handoff") =>
             /\ recvq # << >>
             /\ pc[Head(recvq)] \in {"GetWait", "StopWait"}
             /\ recvq' = Tail(recvq)
             /\ idle' = idle
             /\ pc[Head(recvq)] = "GetWait" =>
                   held'[Head(recvq)] = held[Head(recvq)] \cup {ev'.obj}
             /\ pc[Head(recvq)] = "StopWait" => obj'[Head(recvq)] = ev'.obj
       /\ (ev'.op = "Put" /\ ev'.res = "buffered") =>
             /\ recvq = << >>
             /\ idle' = Append(idle, ev'.obj)]_vars

\* C15 witness: the ctx of a parked Get has fired while a Get parked after it
\* is still waiting, alone in the receive queue.
C15_Witness ==
    /\ ev.op = "GetCancel"
    /\ ~stopping
    /\ Len(recvq) = 1
    /\ pc[Head(recvq)] = "GetWait"
    /\ Borrowed >= 1

\* C16: with capacity 0, New succeeds without calling newFunc and leaves no
\* object idle; no Get returns an object: a Get with a live ctx on a pool that
\* is not stopping parks, and a parked Get leaves only when its ctx fires or
\* p.stopping is closed; and Stop never waits in its loop and never calls
\* destroyFunc: the Stop that closes p.stopping returns in that step.
C16_ZeroCapacity ==
    [][(Cap = 0 /\ config.NewFunc) =>
          /\ ev'.op = "New" => (ev'.res = "nil" /\ newCalls' = 0 /\ idle' = << >>)
          /\ newCalls' = 0 /\ idle' = << >> /\ destroyed' = << >>
          /\ \A p \in Procs : held'[p] = {}
          /\ ev'.op = "Get" => ev'.res # "nil" /\ ev'.obj = Zero
          /\ (ev'.op = "Get" /\ ~ev'.cancelled /\ ~stopping) => ev'.res = "parked"
          /\ \A p \in Procs :
                (pc[p] = "GetWait" /\ pc'[p] # "GetWait") =>
                    \/ ev'.op = "GetCancel"
                    \/ ~stopping /\ stopping'
          /\ \A p \in Procs : pc'[p] \notin {"StopLoop", "StopWait", "StopDestroy"}
          /\ (~stopping /\ stopping') => (ev'.op = "Stop" /\ ev'.res = "drained")]_vars

\* C16 witness: on a pool of capacity 0 the Stop that closed p.stopping has
\* returned, and no object was ever constructed or destroyed.
C16_Witness ==
    /\ newErr = "nil" /\ Cap = 0
    /\ ev.op = "Stop" /\ ev.res = "drained"
    /\ newCalls = 0 /\ destroyed = << >>

\* C17: when newFunc never fails, New calls it exactly capacity times and
\* returns a pool whose idle queue holds those objects in construction order,
\* none of them borrowed; and once New has returned, no step of Get, Put or
\* Stop calls newFunc again.
C17_NewFillsPoolOnce ==
    [][/\ (ev'.op = "New" /\ ev'.res = "nil") =>
             /\ config.Count >= 0
             /\ newCalls' = config.Count
             /\ idle' = [i \in 1..config.Count |-> i]
             /\ Len(idle') = Cap
             /\ Borrowed' = 0
             /\ destroyed' = << >>
       /\ newErr # "pending" => newCalls' = newCalls]_vars

\* C17 witness: on a pool of capacity 2, after Get, Put and Stop calls that
\* ended with both objects destroyed, newFunc has been called twice in all.
C17_Witness ==
    /\ newErr = "nil" /\ Cap = 2
    /\ newCalls = 2
    /\ ev.op = "Stop" /\ ev.res = "drained"
    /\ Len(destroyed) = 2

\* C18: Get parks only when the idle queue is empty, its ctx is not done and
\* p.stopping is not closed; otherwise it returns at once with an outcome that
\* is ready: an object only if one is idle (the oldest), the ctx error only if
\* ctx is done, ErrStoppingOrStopped only if p.stopping is closed; and when
\* only an idle object is ready it returns that object.
C18_GetBlocksOnlyWhenNothingReady ==
    [][ev'.op = "Get" =>
          /\ ev'.res \in {"parked", "nil", "ctx", "ErrStoppingOrStopped"}
          /\ ev'.res = "parked" <=>
                (idle = << >> /\ ~ev'.cancelled /\ ~stopping)
          /\ ev'.res = "nil" =>
                (idle # << >> /\ ev'.obj = Head(idle) /\ idle' = Tail(idle))
          /\ ev'.res = "ctx" => ev'.cancelled
          /\ ev'.res = "ErrStoppingOrStopped" => stopping
          /\ (idle # << >> /\ ~ev'.cancelled /\ ~stopping) =>
                (ev'.res = "nil" /\ ev'.obj = Head(idle))]_vars

\* C18 witness: a Get with a live ctx has parked on a running pool whose two
\* objects are both borrowed.
C18_Witness ==
    /\ ev.op = "Get" /\ ev.res = "parked"
    /\ ~stopping
    /\ Cap = 2 /\ Borrowed = 2 /\ idle = << >>
    /\ Len(recvq) = 1

\* C19: on a pool New returned, destroyFunc is not called before p.stopping is
\* closed; each call is a step of Stop's loop, on the object Stop received,
\* never a step of Get or Put; and the only Stop that enters the loop is the
\* one that closed p.stopping, so at most one goroutine is ever in it.
C19_OnlyTheStoppingStopDestroys ==
    [][newErr = "nil" =>
          /\ ~stopping' => destroyed' = << >>
          /\ Cardinality(Draining') <= 1
          /\ \A p \in Procs :
                (p \in Draining' /\ p \notin Draining) =>
                    (~stopping /\ stopping' /\ pc[p] = "StopClose")
          /\ destroyed' # destroyed =>
                /\ stopping
                /\ ev'.op \notin {"Get", "GetCancel", "Put", "New"}
                /\ \E p \in Procs :
                      /\ pc[p] = "StopDestroy"
                      /\ Draining = {p}
                      /\ destroyed' = Append(destroyed, obj[p])]_vars

\* C19 witness: the Stop that closed p.stopping has destroyed an object while
\* a second Stop call has returned without doing anything.
C19_Witness ==
    /\ newErr = "nil" /\ stopping
    /\ Len(destroyed) >= 1
    /\ ev.op = "Stop" /\ ev.res = "noop"
    /\ Cardinality(Draining) = 1

\* C20: a Get that returns an error, at once or after it was parked, returns
\* the zero value and leaves the idle queue, the objects every caller holds,
\* p.stopping and the destroyed objects as they were; a parked Get that
\* returns because its ctx fired leaves the other parked goroutines in their
\* order.
C20_FailedGetChangesNothing ==
    [][/\ (ev'.op = "Get" /\ ev'.res \in {"ctx", "ErrStoppingOrStopped"}) =>
             /\ ev'.obj = Zero
             /\ idle' = idle /\ held' = held /\ stopping' = stopping
             /\ recvq' = recvq /\ sendq' = sendq
             /\ destroyed' = destroyed /\ newCalls' = newCalls
             /\ pc' = pc
       /\ ev'.op = "GetCancel" =>
             /\ ev'.obj = Zero
             /\ idle' = idle /\ held' = held /\ stopping' = stopping
             /\ destroyed' = destroyed /\ newCalls' = newCalls
             /\ \E p \in Procs :
                   /\ pc[p] = "GetWait"
                   /\ recvq' = Remove(recvq, p)
                   /\ pc' = [pc EXCEPT ![p] = "ready"]
       /\ \A p \in Procs :
             \* a parked Get woken by close(p.stopping)
             (pc[p] = "GetWait" /\ pc'[p] = "ready" /\ ~stopping /\ stopping') =>
                 /\ held' = held /\ idle' = idle
                 /\ destroyed' = destroyed]_vars

\* C20 witness: a Get has returned ErrStoppingOrStopped while an object is idle
\* and another is borrowed.
C20_Witness ==
    /\ ev.op = "Get" /\ ev.res = "ErrStoppingOrStopped"
    /\ idle # << >>
    /\ Borrowed >= 1

====
